---- MODULE Spec2Model ----
(***************************************************************************)
(* A model of process-photos.py: the batch run over the manifest           *)
(* (posts.json), the combine pass, the backup cleanup and the summary,     *)
(* together with the pure helpers (_utc_to_german_time,                    *)
(* _convert_to_degrees, get_unique_filename).                              *)
(*                                                                         *)
(* Files are modelled by what the script can observe of them: whether      *)
(* they exist, their suffix, and whether PIL can decode them.  A folder    *)
(* is a function from the names it holds to the contents of each file.     *)
(***************************************************************************)
EXTENDS Integers, Sequences, FiniteSets, TLC

VARIABLES
    convert_to_jpeg,          \* the answer to prompt 1, as a boolean
    keep_original_filename,   \* the answer to prompt 2
    create_combined_images,   \* the answer to prompt 3
    zoneinfo_available,       \* ZoneInfo is not None
    fresh,                    \* the output folder was empty when the run began
    pc,                       \* position of the script
    nrecords,                 \* len(data)
    idx,                      \* 1-based index of the entry the main loop is at
    cur,                      \* what the current entry resolved to
    kpair,                    \* 1-based index of the pair the combine pass is at
    output_folder,            \* out/__processed : name -> content
    output_folder_combined,   \* out/__combined  : name -> content
    primary_images,
    secondary_images,
    processed_files_count,
    converted_files_count,
    combined_files_count,
    skipped_files_count,
    attempted,                \* history: the entries the loop began, in order
    errors,                   \* history: the entries logged at the record boundary
    pairs,                    \* history: the pairs handed to the compositor
    last,                     \* history: the step just taken, with its inputs
    fn_in,                    \* input of the pure function under check
    fn_out                    \* its result

main_vars == <<convert_to_jpeg, keep_original_filename, create_combined_images,
               zoneinfo_available, fresh, pc, nrecords, idx, cur, kpair,
               output_folder, output_folder_combined, primary_images,
               secondary_images, processed_files_count, converted_files_count,
               combined_files_count, skipped_files_count, attempted, errors,
               pairs, last>>

vars == <<main_vars, fn_in, fn_out>>

(***************************************************************************)
(* Bounds of the model.                                                    *)
(***************************************************************************)
MaxRecords == 2

(***************************************************************************)
(* datetime: <<year, month, day, hour, minute, second>>.                   *)
(***************************************************************************)
NoTime == <<>>

\* days since 1970-01-01 of a civil date (proleptic Gregorian, as datetime)
DaysFromCivil(y, m, d) ==
    LET yy  == IF m <= 2 THEN y - 1 ELSE y
        era == yy \div 400
        yoe == yy - era * 400
        mp  == IF m > 2 THEN m - 3 ELSE m + 9
        doy == (153 * mp + 2) \div 5 + d - 1
        doe == yoe * 365 + yoe \div 4 - yoe \div 100 + doy
    IN  era * 146097 + doe - 719468

CivilFromDays(z) ==
    LET zz  == z + 719468
        era == zz \div 146097
        doe == zz - era * 146097
        yoe == (doe - doe \div 1460 + doe \div 36524 - doe \div 146096) \div 365
        doy == doe - (365 * yoe + yoe \div 4 - yoe \div 100)
        mp  == (5 * doy + 2) \div 153
        d   == doy - (153 * mp + 2) \div 5 + 1
        m   == IF mp < 10 THEN mp + 3 ELSE mp - 9
        y   == yoe + era * 400 + (IF m <= 2 THEN 1 ELSE 0)
    IN  <<y, m, d>>

\* datetime.weekday(): Monday is 0, Sunday is 6
Weekday(y, m, d) == (DaysFromCivil(y, m, d) + 3) % 7

\* whole hours since the epoch of a datetime (minutes and seconds aside)
HoursOf(dt) == DaysFromCivil(dt[1], dt[2], dt[3]) * 24 + dt[4]

\* dt + timedelta(hours=h)
AddHours(dt, h) ==
    LET t   == HoursOf(dt) + h
        ymd == CivilFromDays(t \div 24)
    IN  <<ymd[1], ymd[2], ymd[3], t % 24, dt[5], dt[6]>>

\* the while loop "while x.weekday() != 6: x -= timedelta(days=1)", from day d
RECURSIVE LastSunday(_, _, _)
LastSunday(y, m, d) ==
    IF Weekday(y, m, d) = 6 THEN d ELSE LastSunday(y, m, d - 1)

(***************************************************************************)
(* _utc_to_german_time.  The ZoneInfo branch is the tz database's          *)
(* Europe/Berlin zone, whose rule (every year from 1996 on) is: CEST from  *)
(* 01:00 UTC on the last Sunday of March to 01:00 UTC on the last Sunday   *)
(* of October.  The other branch is the script's own computation.          *)
(***************************************************************************)
\* dst_start of the fallback branch, in whole hours since the epoch
dst_start(year) == DaysFromCivil(year, 3, LastSunday(year, 3, 31)) * 24 + 2

\* dst_end of the fallback branch
dst_end(year) == DaysFromCivil(year, 10, LastSunday(year, 10, 31)) * 24 + 1

\* offset_hours of the fallback branch
offset_hours(dt_naive) ==
    LET is_dst == /\ dst_start(dt_naive[1]) <= HoursOf(dt_naive)
                  /\ HoursOf(dt_naive) < dst_end(dt_naive[1])
    IN  IF is_dst THEN 2 ELSE 1

\* utcoffset of Europe/Berlin at a UTC instant (tz database, 1996 onwards)
berlin_utcoffset(dt_utc) ==
    LET y     == dt_utc[1]
        start == DaysFromCivil(y, 3, LastSunday(y, 3, 31)) * 24 + 1
        end   == DaysFromCivil(y, 10, LastSunday(y, 10, 31)) * 24 + 1
    IN  IF start <= HoursOf(dt_utc) /\ HoursOf(dt_utc) < end THEN 2 ELSE 1

utc_to_german_time(dt_utc, has_zoneinfo) ==
    IF has_zoneinfo
    THEN AddHours(dt_utc, berlin_utcoffset(dt_utc))
    ELSE AddHours(dt_utc, offset_hours(dt_utc))

(***************************************************************************)
(* Names and files.  A name of an output folder is                        *)
(*   {time}_{role}[_{stem}][_{n}].{ext}[~]                                 *)
(* with time the strftime("%Y-%m-%dT%H-%M-%S") fields, stem 0 when the     *)
(* original file name is not kept, n 0 when no counter is appended and     *)
(* bak TRUE for the "~" backup that iptcinfo3 leaves behind.  The images   *)
(* of the export are .webp files (the files count_files_in_folder counts); *)
(* every manifest path names a file of its own, so the stem of a file is   *)
(* given by its entry and role.                                            *)
(***************************************************************************)
Roles == {"primary", "secondary"}

T1 == <<2024, 7, 15, 12, 0, 0>>
T2 == <<2024, 12, 31, 23, 30, 0>>
TakenAtSet == {T1, T2}

Nm(time, role, stem, n, ext, bak) ==
    [time |-> time, role |-> role, stem |-> stem, n |-> n, ext |-> ext, bak |-> bak]

NoName == Nm(NoTime, "none", 0, 0, "none", FALSE)

RoleNo(role) == CASE role = "primary" -> 1 [] role = "secondary" -> 2 [] OTHER -> 3

\* Path(...).stem of the file that entry i names for a role
StemOf(i, role) == i * 10 + RoleNo(role)

\* a file: the entry and role it came from (sec: the entry of the secondary
\* image inside a combined image), its real format, whether it decodes, the
\* EXIF DateTimeOriginal and whether the IPTC block was written
File(rec, role, sec, taken_at, fmt, ok, src) ==
    [rec |-> rec, role |-> role, sec |-> sec, taken_at |-> taken_at, fmt |-> fmt,
     ok |-> ok, exif |-> NoTime, iptc |-> FALSE, src |-> src]

NoFile == File(0, "none", 0, NoTime, "none", FALSE, "none")

EmptyFolder == [n \in {} |-> NoFile]

\* the folder with the file at path written (created or overwritten)
Put(folder, path, file) ==
    [n \in DOMAIN folder \cup {path} |-> IF n = path THEN file ELSE folder[n]]

Remove(folder, path) == [n \in DOMAIN folder \ {path} |-> folder[n]]

\* what an earlier run with the same settings left in out/__processed
Preexisting(convert, keep) ==
    LET names == {Nm(T1, r, IF keep THEN StemOf(1, r) ELSE 0, n,
                     IF r = "bts" THEN "mp4" ELSE IF convert THEN "jpg" ELSE "webp",
                     FALSE) : r \in Roles \cup {"bts"}, n \in {0, 2}}
    IN  [n \in names |-> File(0, n.role, 0, T1, IF n.role = "bts" THEN "mp4" ELSE n.ext,
                              TRUE, "earlier")]

(***************************************************************************)
(* The helpers of the script.                                              *)
(***************************************************************************)
\* convert_webp_to_jpg without its try: the result when nothing is checked
convert_webp_to_jpg_unchecked(exists, webp, decodable) ==
    IF webp THEN [path |-> "jpg", converted |-> TRUE]
    ELSE [path |-> "same", converted |-> FALSE]

\* convert_webp_to_jpg returning the input path when the conversion fails
convert_webp_to_jpg_keeps_path(exists, webp, decodable) ==
    IF webp /\ exists /\ decodable
    THEN [path |-> "jpg", converted |-> TRUE]
    ELSE [path |-> "same", converted |-> FALSE]

\* convert_webp_to_jpg: (converted_path, converted); the path is "jpg" for
\* image_path.with_suffix('.jpg'), "same" for image_path, "None" for None
convert_webp_to_jpg(exists, webp, decodable) ==
    IF webp
    THEN IF exists /\ decodable
         THEN [path |-> "jpg", converted |-> TRUE]
         ELSE [path |-> "None", converted |-> FALSE]
    ELSE [path |-> "same", converted |-> FALSE]

\* taken_at.strftime("%Y-%m-%dT%H-%M-%S") of the UTC-aware taken_at
time_str(taken_at) == taken_at

\* new_filename of an image role
new_filename(taken_at, role, i) ==
    Nm(time_str(taken_at), role,
       IF keep_original_filename THEN StemOf(i, role) ELSE 0, 0,
       IF convert_to_jpeg THEN "jpg" ELSE "webp", FALSE)

\* bts_new_filename
bts_new_filename(taken_at, i) ==
    Nm(time_str(taken_at), "bts",
       IF keep_original_filename THEN StemOf(i, "bts") ELSE 0, 0, "mp4", FALSE)

\* the while loop of get_unique_filename, from counter on
RECURSIVE unique_from(_, _, _)
unique_from(folder, path, counter) ==
    IF [path EXCEPT !.n = counter] \in DOMAIN folder
    THEN unique_from(folder, path, counter + 1)
    ELSE [path EXCEPT !.n = counter]

\* get_unique_filename without the loop
get_unique_filename_no_loop(path) == path

get_unique_filename(path) ==
    IF path \notin DOMAIN output_folder THEN path
    ELSE unique_from(output_folder, path, 1)

\* update_exif: DateTimeOriginal is set when piexif can load the file; a
\* failure is caught and logged inside
update_exif(folder, path, datetime_original) ==
    IF path \in DOMAIN folder /\ folder[path].ok
    THEN Put(folder, path,
             [folder[path] EXCEPT
                !.exif = utc_to_german_time(datetime_original, zoneinfo_available)])
    ELSE folder

\* update_iptc: iptcinfo3 rewrites a JPEG and moves the file it replaces to
\* path~; on anything else save_as fails, which is caught and logged inside
update_iptc(folder, path) ==
    IF path \in DOMAIN folder /\ folder[path].ok /\ folder[path].fmt = "jpg"
    THEN Put(Put(folder, [path EXCEPT !.bak = TRUE], folder[path]),
             path, [folder[path] EXCEPT !.iptc = TRUE])
    ELSE folder

\* remove_backup_files
remove_backup_files(directory) ==
    [n \in {m \in DOMAIN directory : ~m.bak} |-> directory[n]]

\* update_mp4_metadata: the value returned, given how ffmpeg ended
update_mp4_metadata(ffmpeg) == ffmpeg = "ok"

\* bts_new_path.with_suffix('.tmp.mp4')
temp_output(bts_new_path) == [bts_new_path EXCEPT !.ext = "tmp.mp4"]

\* no handler: the exception ends the script
except_entry_missing(i) == [pc |-> "crashed", idx |-> i]

\* the handler of the record-level try: log, then on to the next entry
except_entry(i) == [pc |-> "entry", idx |-> i + 1]

Min(a, b) == IF a < b THEN a ELSE b

(***************************************************************************)
(* The run.                                                                *)
(***************************************************************************)
NoCur == [taken_at |-> NoTime]

\* a step of the run: where the input file was, the BTS entry and how ffmpeg
\* ended, the outcome and the output path
Step(op, rec, role, where, decodable, bts, ffmpeg, outcome, path) ==
    [op |-> op, rec |-> rec, role |-> role, where |-> where, decodable |-> decodable,
     bts |-> bts, ffmpeg |-> ffmpeg, outcome |-> outcome, path |-> path]

PlainStep(op, rec, outcome) ==
    Step(op, rec, "none", "none", FALSE, "none", "none", outcome, NoName)

MainInit ==
    /\ convert_to_jpeg \in BOOLEAN
    /\ keep_original_filename \in BOOLEAN
    /\ create_combined_images \in BOOLEAN
    /\ zoneinfo_available = TRUE
    /\ fresh \in BOOLEAN
    /\ pc = "load"
    /\ nrecords = 0
    /\ idx = 1
    /\ cur = NoCur
    /\ kpair = 1
    /\ output_folder = IF fresh THEN EmptyFolder
                       ELSE Preexisting(convert_to_jpeg, keep_original_filename)
    /\ output_folder_combined = EmptyFolder
    /\ primary_images = <<>>
    /\ secondary_images = <<>>
    /\ processed_files_count = 0
    /\ converted_files_count = 0
    /\ combined_files_count = 0
    /\ skipped_files_count = 0
    /\ attempted = <<>>
    /\ errors = {}
    /\ pairs = <<>>
    /\ last = PlainStep("init", 0, "ok")

Init == MainInit /\ fn_in = <<>> /\ fn_out = <<>>

\* lines 438-443: only FileNotFoundError is handled (exit()); a manifest that
\* does not parse ends the script with the decoder's exception
LoadManifest ==
    /\ pc = "load"
    /\ \E outcome \in {"ok", "notfound", "badjson"}, n \in 0..MaxRecords :
          /\ pc' = CASE outcome = "ok" -> "entry"
                     [] outcome = "notfound" -> "exit"
                     [] OTHER -> "crashed"
          /\ nrecords' = IF outcome = "ok" THEN n ELSE 0
          /\ last' = PlainStep("load", 0, outcome)
    /\ UNCHANGED <<convert_to_jpeg, keep_original_filename, create_combined_images,
                   zoneinfo_available, fresh, idx, cur, kpair, output_folder,
                   output_folder_combined, primary_images, secondary_images,
                   processed_files_count, converted_files_count, combined_files_count,
                   skipped_files_count, attempted, errors, pairs, fn_in, fn_out>>

\* lines 446-463: the entry's paths and takenAt (a missing key and a takenAt
\* that strptime rejects raise)
StartEntry ==
    /\ pc = "entry"
    /\ idx <= nrecords
    /\ \E has_paths \in BOOLEAN, taken \in TakenAtSet \cup {NoTime} :
          LET fault == ~has_paths \/ taken = NoTime
              nxt   == except_entry(idx)
          IN  /\ attempted' = Append(attempted, idx)
              /\ pc' = IF fault THEN nxt.pc ELSE "primary"
              /\ idx' = IF fault THEN nxt.idx ELSE idx
              /\ errors' = IF fault THEN errors \cup {idx} ELSE errors
              /\ cur' = IF fault THEN NoCur
                        ELSE [taken_at |-> taken]
              /\ last' = PlainStep("start", idx, IF fault THEN "fault" ELSE "ok")
    /\ UNCHANGED <<convert_to_jpeg, keep_original_filename, create_combined_images,
                   zoneinfo_available, fresh, nrecords, kpair, output_folder,
                   output_folder_combined, primary_images, secondary_images,
                   processed_files_count, converted_files_count, combined_files_count,
                   skipped_files_count, pairs, fn_in, fn_out>>

\* lines 452-457 and 466-520: one pass of "for path, role in [...]".  Both
\* paths are taken from the folder the primary file is found in (photo_folder,
\* else bereal_folder): the file of the role is "here" (in that folder),
\* "elsewhere" (only in the other candidate folder) or "nowhere"
ProcessRole ==
    /\ pc \in Roles
    /\ \E where \in {"here", "elsewhere", "nowhere"}, decodable \in BOOLEAN :
          LET role     == pc
              webp     == TRUE
              exists   == where = "here"
              conv     == IF convert_to_jpeg
                          THEN convert_webp_to_jpg(exists, webp, decodable)
                          ELSE [path |-> "same", converted |-> FALSE]
              skip     == convert_to_jpeg /\ conv.path = "None"
              new_path == get_unique_filename(new_filename(cur.taken_at, role, idx))
              moved    == convert_to_jpeg /\ conv.converted
              fault    == ~skip /\ ~moved /\ ~exists
              file     == IF moved
                          THEN File(idx, role, 0, cur.taken_at, "jpg", TRUE, "converted")
                          ELSE File(idx, role, 0, cur.taken_at,
                                    IF webp THEN "webp" ELSE "jpg", decodable, "copy")
              written  == update_iptc(
                              update_exif(Put(output_folder, new_path, file),
                                          new_path, cur.taken_at),
                              new_path)
              after    == IF role = "primary" THEN "secondary" ELSE "bts"
              nxt      == except_entry(idx)
          IN  /\ exists \/ ~decodable
              /\ role = "primary" => where # "elsewhere"
              /\ skipped_files_count' = skipped_files_count + (IF skip THEN 1 ELSE 0)
              /\ converted_files_count' =
                     converted_files_count + (IF ~skip /\ moved THEN 1 ELSE 0)
              /\ output_folder' = IF skip \/ fault THEN output_folder ELSE written
              /\ primary_images' =
                     IF ~skip /\ ~fault /\ role = "primary"
                     THEN Append(primary_images,
                                 [path |-> new_path, taken_at |-> cur.taken_at])
                     ELSE primary_images
              /\ secondary_images' =
                     IF ~skip /\ ~fault /\ role = "secondary"
                     THEN Append(secondary_images, new_path)
                     ELSE secondary_images
              /\ processed_files_count' =
                     processed_files_count + (IF skip \/ fault THEN 0 ELSE 1)
              /\ pc' = IF fault THEN nxt.pc ELSE after
              /\ idx' = IF fault THEN nxt.idx ELSE idx
              /\ errors' = IF fault THEN errors \cup {idx} ELSE errors
              /\ last' = Step("role", idx, role, where, decodable, "none", "none",
                              CASE skip -> "skipped" [] fault -> "fault" [] OTHER -> "ok",
                              IF skip \/ fault THEN NoName ELSE new_path)
    /\ UNCHANGED <<convert_to_jpeg, keep_original_filename, create_combined_images,
                   zoneinfo_available, fresh, nrecords, cur, kpair,
                   output_folder_combined, combined_files_count, attempted, pairs,
                   fn_in, fn_out>>

\* what the ffmpeg call of update_mp4_metadata leaves at output_path: the
\* whole file on exit code 0, possibly a partial file on another exit code,
\* nothing when the executable is missing
ffmpeg_run(folder, output_path, ffmpeg, partial, i, taken_at) ==
    CASE ffmpeg = "ok" ->
            Put(folder, output_path, File(i, "bts", 0, taken_at, "mp4", TRUE, "ffmpeg"))
      [] ffmpeg = "nonzero" /\ partial ->
            Put(folder, output_path, File(i, "bts", 0, taken_at, "mp4", FALSE, "partial"))
      [] OTHER -> folder

\* the fallback taking whatever ffmpeg left at temp_output
bts_materialize_trusts_temp(success, folder, bts_new_path, i, taken_at) ==
    IF success \/ temp_output(bts_new_path) \in DOMAIN folder
    THEN [folder |-> Put(Remove(folder, temp_output(bts_new_path)), bts_new_path,
                         folder[temp_output(bts_new_path)]),
          processed |-> 1]
    ELSE [folder |-> Put(folder, bts_new_path,
                         File(i, "bts", 0, taken_at, "mp4", TRUE, "copy")),
          processed |-> 1]

\* the fallback copy left out of the count
bts_materialize_copy_uncounted(success, folder, bts_new_path, i, taken_at) ==
    IF success
    THEN [folder |-> Put(Remove(folder, temp_output(bts_new_path)), bts_new_path,
                         folder[temp_output(bts_new_path)]),
          processed |-> 1]
    ELSE [folder |-> Put(folder, bts_new_path,
                         File(i, "bts", 0, taken_at, "mp4", TRUE, "copy")),
          processed |-> 0]

\* lines 543-551: temp_output.replace(bts_new_path), or the plain copy; the
\* folder afterwards and the increment of processed_files_count
bts_materialize(success, folder, bts_new_path, i, taken_at) ==
    IF success
    THEN [folder |-> Put(Remove(folder, temp_output(bts_new_path)), bts_new_path,
                         folder[temp_output(bts_new_path)]),
          processed |-> 1]
    ELSE [folder |-> Put(folder, bts_new_path,
                         File(i, "bts", 0, taken_at, "mp4", TRUE, "copy")),
          processed |-> 1]

\* lines 522-551: the BTS video of the entry, then on to the next entry
ProcessBTS ==
    /\ pc = "bts"
    /\ \E bts \in {"absent", "badpath", "missing", "notmp4", "mp4"},
          ffmpeg \in {"ok", "nonzero", "notfound"}, partial \in BOOLEAN :
          LET fault        == bts = "badpath"
              bts_new_path == get_unique_filename(bts_new_filename(cur.taken_at, idx))
              success      == update_mp4_metadata(ffmpeg)
              res          == bts_materialize(
                                  success,
                                  ffmpeg_run(output_folder, temp_output(bts_new_path),
                                             ffmpeg, partial, idx, cur.taken_at),
                                  bts_new_path, idx, cur.taken_at)
              nxt          == except_entry(idx)
          IN  /\ bts # "mp4" => ffmpeg = "ok"
              /\ ffmpeg # "nonzero" => ~partial
              /\ output_folder' = IF bts = "mp4" THEN res.folder ELSE output_folder
              /\ processed_files_count' =
                     processed_files_count + (IF bts = "mp4" THEN res.processed ELSE 0)
              /\ errors' = IF fault THEN errors \cup {idx} ELSE errors
              /\ pc' = IF fault THEN nxt.pc ELSE "entry"
              /\ idx' = IF fault THEN nxt.idx ELSE idx + 1
              /\ last' = Step("bts", idx, "bts", "none", FALSE,
                              bts, IF bts = "mp4" THEN ffmpeg ELSE "none",
                              CASE fault -> "fault" [] bts = "mp4" -> "ok"
                                [] OTHER -> "nobts",
                              IF bts = "mp4" THEN bts_new_path ELSE NoName)
    /\ cur' = NoCur
    /\ UNCHANGED <<convert_to_jpeg, keep_original_filename, create_combined_images,
                   zoneinfo_available, fresh, nrecords, kpair, output_folder_combined,
                   primary_images, secondary_images, converted_files_count,
                   combined_files_count, skipped_files_count, attempted, pairs,
                   fn_in, fn_out>>

\* the main loop has run out of entries
EndLoop ==
    /\ pc = "entry"
    /\ idx > nrecords
    /\ pc' = "combine"
    /\ last' = PlainStep("endloop", 0, "ok")
    /\ UNCHANGED <<convert_to_jpeg, keep_original_filename, create_combined_images,
                   zoneinfo_available, fresh, nrecords, idx, cur, kpair, output_folder,
                   output_folder_combined, primary_images, secondary_images,
                   processed_files_count, converted_files_count, combined_files_count,
                   skipped_files_count, attempted, errors, pairs, fn_in, fn_out>>

\* zip(primary_images, secondary_images)
zip_length == Min(Len(primary_images), Len(secondary_images))

\* a pairing that runs through the secondaries from the other end
zip_pair_reversed(k) == <<primary_images[k], secondary_images[zip_length + 1 - k]>>

zip_pair(k) == <<primary_images[k], secondary_images[k]>>

\* combine_images_with_resizing raises when Image.open cannot decode an input
compositor_fails(primary_path, secondary_path) ==
    ~(output_folder[primary_path].ok /\ output_folder[secondary_path].ok)

\* f"{timestamp}_combined.webp" with timestamp = stem.split('_')[0]
combined_filename(primary_new_path) ==
    Nm(primary_new_path.time, "combined", 0, 0, "webp", FALSE)

\* lines 574-592: save the JPEG bytes under the .webp name, write its metadata
\* and, when conversion is on, convert it and write the metadata of the .jpg
write_combined(folder, path, file, taken_at) ==
    LET saved == update_iptc(update_exif(Put(folder, path, file), path, taken_at), path)
        jpg   == [path EXCEPT !.ext = "jpg"]
    IN  IF convert_to_jpeg
        THEN update_iptc(update_exif(Put(saved, jpg, file), jpg, taken_at), jpg)
        ELSE saved

\* lines 560-596: one pass of the combine loop; nothing catches a compositor fault
CombinePair ==
    /\ pc = "combine"
    /\ create_combined_images
    /\ kpair <= zip_length
    /\ LET primary_path     == zip_pair(kpair)[1]
           secondary_path   == zip_pair(kpair)[2]
           primary_new_path == primary_path.path
           fault == compositor_fails(primary_new_path, secondary_path)
           file  == File(output_folder[primary_new_path].rec, "combined",
                         output_folder[secondary_path].rec, primary_path.taken_at,
                         "jpg", TRUE, "composite")
       IN  /\ pairs' = Append(pairs, <<primary_new_path, secondary_path>>)
           /\ pc' = IF fault THEN "crashed" ELSE "combine"
           /\ kpair' = IF fault THEN kpair ELSE kpair + 1
           /\ output_folder_combined' =
                  IF fault THEN output_folder_combined
                  ELSE write_combined(output_folder_combined,
                                      combined_filename(primary_new_path), file,
                                      primary_path.taken_at)
           /\ combined_files_count' = combined_files_count + (IF fault THEN 0 ELSE 1)
           /\ last' = Step("combine", kpair, "combined", "none", ~fault, "none",
                           "none", IF fault THEN "fault" ELSE "ok",
                           combined_filename(primary_new_path))
    /\ UNCHANGED <<convert_to_jpeg, keep_original_filename, create_combined_images,
                   zoneinfo_available, fresh, nrecords, idx, cur, output_folder,
                   primary_images, secondary_images, processed_files_count,
                   converted_files_count, skipped_files_count, attempted, errors,
                   fn_in, fn_out>>

\* line 556 answered no, or the zip is exhausted
EndCombine ==
    /\ pc = "combine"
    /\ ~create_combined_images \/ kpair > zip_length
    /\ pc' = "cleanup"
    /\ last' = PlainStep("endcombine", 0, "ok")
    /\ UNCHANGED <<convert_to_jpeg, keep_original_filename, create_combined_images,
                   zoneinfo_available, fresh, nrecords, idx, cur, kpair, output_folder,
                   output_folder_combined, primary_images, secondary_images,
                   processed_files_count, converted_files_count, combined_files_count,
                   skipped_files_count, attempted, errors, pairs, fn_in, fn_out>>

\* lines 598-601
Cleanup ==
    /\ pc = "cleanup"
    /\ output_folder' = remove_backup_files(output_folder)
    /\ output_folder_combined' =
           IF create_combined_images THEN remove_backup_files(output_folder_combined)
           ELSE output_folder_combined
    /\ pc' = "summary"
    /\ last' = PlainStep("cleanup", 0, "ok")
    /\ UNCHANGED <<convert_to_jpeg, keep_original_filename, create_combined_images,
                   zoneinfo_available, fresh, nrecords, idx, cur, kpair,
                   primary_images, secondary_images, processed_files_count,
                   converted_files_count, combined_files_count, skipped_files_count,
                   attempted, errors, pairs, fn_in, fn_out>>

\* line 605
Summary ==
    /\ pc = "summary"
    /\ pc' = "done"
    /\ last' = PlainStep("summary", 0, "ok")
    /\ UNCHANGED <<convert_to_jpeg, keep_original_filename, create_combined_images,
                   zoneinfo_available, fresh, nrecords, idx, cur, kpair, output_folder,
                   output_folder_combined, primary_images, secondary_images,
                   processed_files_count, converted_files_count, combined_files_count,
                   skipped_files_count, attempted, errors, pairs, fn_in, fn_out>>

Next ==
    \/ LoadManifest
    \/ StartEntry
    \/ ProcessRole
    \/ ProcessBTS
    \/ EndLoop
    \/ CombinePair
    \/ EndCombine
    \/ Cleanup
    \/ Summary

Spec == Init /\ [][Next]_vars

(***************************************************************************)
(* Properties of the run.                                                  *)
(***************************************************************************)
LoopLeft ==
    \/ pc \in {"combine", "cleanup", "summary", "done"}
    \/ pc = "crashed" /\ last.op = "combine"

InStep(op) == last'.op = op /\ last' # last

\* C1: a fault raised while an entry is processed (reading its keys and
\* takenAt, copying a file, reading the BTS path) is caught at the record
\* boundary: the script goes on to the next entry, the entries are begun in
\* manifest order, and the loop is left only when every entry was begun.
C1_FaultIsolation ==
    /\ last.op \in {"start", "role", "bts"} /\ last.outcome = "fault"
          => pc = "entry" /\ idx = last.rec + 1 /\ last.rec \in errors
    /\ pc = "crashed" => last.op \in {"load", "combine"}
    /\ attempted = [k \in 1..Len(attempted) |-> k]
    /\ pc = "entry" => Len(attempted) = idx - 1
    /\ pc \in {"primary", "secondary", "bts"} => Len(attempted) = idx
    /\ LoopLeft => Len(attempted) = nrecords
    /\ errors \subseteq 1..Len(attempted)

\* the first entry failed, and the second one was processed to its BTS video
C1_Witness ==
    /\ errors = {1}
    /\ last.op = "bts" /\ last.rec = 2 /\ last.outcome = "ok"
    /\ processed_files_count = 3

\* C2: only a manifest that cannot be opened or parsed ends the batch; a
\* compositor fault in the combine pass does not (the pair is skipped, and
\* the run goes on to the cleanup and the summary).
C2_NoAbortAfterLoad == pc = "crashed" => last.op = "load"

C4_ConversionFailureSkips ==
    [][(pc \in Roles /\ InStep("role"))
         => /\ (convert_to_jpeg /\ (last'.where # "here" \/ ~last'.decodable))
                  <=> last'.outcome = "skipped"
            /\ last'.outcome = "skipped"
                  => /\ skipped_files_count' = skipped_files_count + 1
                     /\ processed_files_count' = processed_files_count
                     /\ converted_files_count' = converted_files_count
                     /\ output_folder' = output_folder
                     /\ primary_images' = primary_images
                     /\ secondary_images' = secondary_images
                     /\ errors' = errors
                     /\ idx' = idx
                     /\ pc' = IF pc = "primary" THEN "secondary" ELSE "bts"]_vars

\* the primary was skipped, the secondary of the same entry was converted and
\* its BTS video handled
C4_Witness ==
    /\ last.op = "bts" /\ last.rec = 1 /\ last.outcome = "ok"
    /\ skipped_files_count = 1 /\ converted_files_count = 1
    /\ Len(primary_images) = 0 /\ Len(secondary_images) = 1

\* C5: when ffmpeg fails on an existing .mp4 (exit code or no executable), the
\* BTS output path, which did not exist, holds a plain copy of the original,
\* never what ffmpeg left behind; processed grows by exactly one, as it does
\* when ffmpeg succeeds, and skipped is unchanged.
C5_BtsFallbackCopies ==
    [][(pc = "bts" /\ InStep("bts") /\ last'.bts = "mp4")
         => /\ processed_files_count' = processed_files_count + 1
            /\ skipped_files_count' = skipped_files_count
            /\ last'.path \notin DOMAIN output_folder
            /\ last'.path \in DOMAIN output_folder'
            /\ output_folder'[last'.path].src =
                   (IF last'.ffmpeg = "ok" THEN "ffmpeg" ELSE "copy")
            /\ output_folder'[last'.path].ok
            /\ output_folder'[last'.path].rec = idx]_vars

\* ffmpeg failed and left a partial file; the output is the copy
C5_Witness ==
    /\ last.op = "bts" /\ last.ffmpeg = "nonzero"
    /\ temp_output(last.path) \in DOMAIN output_folder
    /\ output_folder[temp_output(last.path)].src = "partial"
    /\ output_folder[last.path].src = "copy"

\* C6: the compositor is called only after the main loop is left and only
\* when combining is on; its k-th call gets the k-th recorded primary and the
\* k-th recorded secondary; when the pass ends without a fault, combined is
\* the length of the shorter list; with combining off it stays 0.
C6_CombinePairsByPosition ==
    /\ \A k \in 1..Len(pairs) :
          /\ k <= zip_length
          /\ pairs[k] = <<primary_images[k].path, secondary_images[k]>>
    /\ pairs # <<>> => create_combined_images /\ LoopLeft /\ Len(attempted) = nrecords
    /\ ~LoopLeft => combined_files_count = 0
    /\ combined_files_count <= Len(pairs)
    /\ pc \in {"cleanup", "summary", "done"}
          => /\ combined_files_count = Len(pairs)
             /\ combined_files_count = IF create_combined_images THEN zip_length ELSE 0

\* two primaries and two secondaries were recorded and combined
C6_Witness ==
    /\ pc = "done"
    /\ Len(primary_images) = 2 /\ Len(secondary_images) = 2
    /\ primary_images[1].path # primary_images[2].path
    /\ combined_files_count = 2

\* C7: the path an image or a BTS video is materialized at did not exist when
\* it was derived; it is the candidate name, or the candidate with _n for the
\* least n >= 1 that is free; no file that existed is touched; and in a fresh
\* output folder n is the number of earlier outputs with the same candidate.
C7_UniqueOutputPath ==
    [][(pc \in {"primary", "secondary", "bts"} /\ last' # last /\ last'.outcome = "ok")
         => LET p    == last'.path
                cand == IF pc = "bts" THEN bts_new_filename(cur.taken_at, idx)
                        ELSE new_filename(cur.taken_at, pc, idx)
            IN  /\ p \notin DOMAIN output_folder
                /\ p \in DOMAIN output_folder'
                /\ p = [cand EXCEPT !.n = p.n]
                /\ \A m \in 0..(p.n - 1) : [cand EXCEPT !.n = m] \in DOMAIN output_folder
                /\ \A q \in DOMAIN output_folder :
                      q \in DOMAIN output_folder' /\ output_folder'[q] = output_folder[q]
                /\ fresh => p.n = Cardinality({q \in DOMAIN output_folder :
                                                  [q EXCEPT !.n = 0] = cand})]_vars

\* a rerun: the candidate and _2 were there, the first entry took _1 and the
\* second one _3
C7_Witness ==
    /\ ~fresh
    /\ last.outcome = "ok" /\ last.role = "primary" /\ last.rec = 2
    /\ last.path.n = 3

\* C8: for takenAt 2024-07-15T12:00:00.000Z, conversion on and original names
\* off, the files are 2024-07-15T14-00-00_primary.jpg and
\* 2024-07-15T14-00-00_secondary.jpg with capture time 2024:07:15 14:00:00; in
\* general the time in a file name is the capture time embedded in the file.
C8_NameCarriesCivilTime ==
    /\ \A p \in DOMAIN output_folder :
          (p.role \in Roles /\ output_folder[p].exif # NoTime)
             => p.time = output_folder[p].exif
    /\ (/\ pc = "done" /\ nrecords = 1 /\ fresh
        /\ convert_to_jpeg /\ ~keep_original_filename
        /\ Len(primary_images) = 1 /\ Len(secondary_images) = 1
        /\ primary_images[1].taken_at = T1)
          => \A r \in Roles :
                LET p == Nm(<<2024, 7, 15, 14, 0, 0>>, r, 0, 0, "jpg", FALSE)
                IN  /\ p \in DOMAIN output_folder
                    /\ output_folder[p].exif = <<2024, 7, 15, 14, 0, 0>>

(***************************************************************************)
(* Python floats.  A float of the script is an IEEE 754 double; the ones   *)
(* that occur in _convert_to_degrees are multiples of 2^-(12*FracLimbs),   *)
(* and are held here as such multiples: a natural number written in limbs  *)
(* of 12 bits, least significant limb first.  Every operation is the exact *)
(* result rounded to 53 significant bits, ties to even.                    *)
(***************************************************************************)
FracLimbs == 10

Base == 64 * 64

RECURSIVE Trim(_)
Trim(x) ==
    IF Len(x) > 0 /\ x[Len(x)] = 0 THEN Trim(SubSeq(x, 1, Len(x) - 1)) ELSE x

RECURSIVE FromInt(_)
FromInt(n) == IF n = 0 THEN <<>> ELSE <<n % Base>> \o FromInt(n \div Base)

RECURSIVE ToInt(_)
ToInt(x) == IF Len(x) = 0 THEN 0 ELSE x[1] + Base * ToInt(Tail(x))

RECURSIVE MulFrom(_, _, _, _)
MulFrom(x, c, i, carry) ==
    IF i > Len(x) THEN FromInt(carry)
    ELSE <<(x[i] * c + carry) % Base>> \o MulFrom(x, c, i + 1, (x[i] * c + carry) \div Base)

\* x * c for a small c
MulSmall(x, c) == Trim(MulFrom(x, c, 1, 0))

RECURSIVE DivFrom(_, _, _, _)
DivFrom(x, c, i, r) ==
    IF i = 0 THEN [q |-> <<>>, r |-> r]
    ELSE LET rest == DivFrom(x, c, i - 1, (r * Base + x[i]) % c)
         IN  [q |-> Append(rest.q, (r * Base + x[i]) \div c), r |-> rest.r]

\* quotient and remainder of x by a small c
DivSmall(x, c) ==
    LET d == DivFrom(x, c, Len(x), 0) IN [q |-> Trim(d.q), r |-> d.r]

RECURSIVE AddFrom(_, _, _)
AddFrom(x, i, carry) ==
    IF carry = 0 THEN SubSeq(x, i, Len(x))
    ELSE IF i > Len(x) THEN <<carry>>
    ELSE <<(x[i] + carry) % Base>> \o AddFrom(x, i + 1, (x[i] + carry) \div Base)

AddOne(x) == AddFrom(x, 1, 1)

Limb(x, i) == IF i <= Len(x) THEN x[i] ELSE 0

RECURSIVE SubFrom(_, _, _, _)
SubFrom(x, y, i, borrow) ==
    IF i > Len(x) THEN <<>>
    ELSE LET v == x[i] - Limb(y, i) - borrow
         IN  <<v % Base>> \o SubFrom(x, y, i + 1, IF v < 0 THEN 1 ELSE 0)

\* x - y for x >= y
Sub(x, y) == Trim(SubFrom(x, y, 1, 0))

RECURSIVE LessFrom(_, _, _)
LessFrom(x, y, i) ==
    IF i = 0 THEN FALSE
    ELSE IF x[i] # y[i] THEN x[i] < y[i]
    ELSE LessFrom(x, y, i - 1)

\* x < y, both without leading zero limbs
Less(x, y) ==
    IF Len(x) # Len(y) THEN Len(x) < Len(y) ELSE LessFrom(x, y, Len(x))

RECURSIVE Pow2(_)
Pow2(b) == IF b = 0 THEN 1 ELSE 2 * Pow2(b - 1)

RECURSIVE BitsOf(_)
BitsOf(n) == IF n = 0 THEN 0 ELSE 1 + BitsOf(n \div 2)

BitLen(x) == IF Len(x) = 0 THEN 0 ELSE 12 * (Len(x) - 1) + BitsOf(x[Len(x)])

Zeros(n) == [i \in 1..n |-> 0]

ShiftLeftBits(x, b) ==
    IF Len(x) = 0 THEN x ELSE Zeros(b \div 12) \o MulSmall(x, Pow2(b % 12))

\* x shifted right by b bits, and whether a 1 was shifted out
ShiftRightBits(x, b) ==
    LET limbs == b \div 12
        d     == DivSmall(SubSeq(x, limbs + 1, Len(x)), Pow2(b % 12))
    IN  [q  |-> d.q,
         nz |-> d.r # 0 \/ \E i \in 1..Min(limbs, Len(x)) : x[i] # 0]

\* x, with sticky telling that the exact value lies above x, rounded to 53
\* significant bits, ties to even
Round53(x, sticky) ==
    IF BitLen(x) <= 53 THEN x
    ELSE LET sh    == BitLen(x) - 53
             g     == ShiftRightBits(x, sh - 1)
             guard == g.q[1] % 2
             q     == ShiftRightBits(g.q, 1).q
             up    == guard = 1 /\ (g.nz \/ sticky \/ q[1] % 2 = 1)
         IN  ShiftLeftBits(IF up THEN AddOne(q) ELSE q, sh)

\* float(n) of a small integer
FloatOfInt(n) == Zeros(IF n = 0 THEN 0 ELSE FracLimbs) \o FromInt(n)

\* the float json.load reads from the decimal millionths/10^6
FloatOfMillionths(millionths) ==
    LET d1 == DivSmall(FloatOfInt(millionths), 1000)
        d2 == DivSmall(d1.q, 1000)
    IN  Round53(d2.q, d1.r # 0 \/ d2.r # 0)

\* int(x) of a float x >= 0
IntOfFloat(x) == ToInt(SubSeq(x, FracLimbs + 1, Len(x)))

\* x * c
FloatMul(x, c) == Round53(MulSmall(x, c), FALSE)

\* m / c of two small integers
FloatDivInts(m, c) ==
    LET d == DivSmall(FloatOfInt(m), c) IN Round53(d.q, d.r # 0)

\* x - y: the sign and the magnitude
FloatSub(x, y) ==
    IF Less(x, y) THEN [neg |-> TRUE, mag |-> Round53(Sub(y, x), FALSE)]
    ELSE [neg |-> FALSE, mag |-> Round53(Sub(x, y), FALSE)]

\* _convert_to_degrees of a float value >= 0: the numerators of (d, 1), (m, 1)
\* and (int(s * 100), 100)
convert_to_degrees(value) ==
    LET d      == IntOfFloat(value)
        frac   == FloatSub(value, FloatOfInt(d)).mag
        m      == IntOfFloat(FloatMul(frac, 60))
        rest   == FloatSub(frac, FloatDivInts(m, 60))
        s      == FloatMul(rest.mag, 3600)
        s100   == IntOfFloat(FloatMul(s, 100))
    IN  <<d, m, IF rest.neg THEN 0 - s100 ELSE s100>>

(***************************************************************************)
(* The helpers on their own: a call of _utc_to_german_time, under either   *)
(* outcome of the zoneinfo import, and the GPS tags update_exif builds     *)
(* from a location.  No run is in progress: the variables of the run stay  *)
(* as they are before the manifest is read.                                *)
(***************************************************************************)
TzYears == 3

GeoSamples == 6

NoRun ==
    /\ convert_to_jpeg = TRUE
    /\ keep_original_filename = FALSE
    /\ create_combined_images = TRUE
    /\ zoneinfo_available = TRUE
    /\ fresh = TRUE
    /\ pc = "call"
    /\ nrecords = 0
    /\ idx = 1
    /\ cur = NoCur
    /\ kpair = 1
    /\ output_folder = EmptyFolder
    /\ output_folder_combined = EmptyFolder
    /\ primary_images = <<>>
    /\ secondary_images = <<>>
    /\ processed_files_count = 0
    /\ converted_files_count = 0
    /\ combined_files_count = 0
    /\ skipped_files_count = 0
    /\ attempted = <<>>
    /\ errors = {}
    /\ pairs = <<>>
    /\ last = PlainStep("init", 0, "ok")

\* UTC instants: the last weeks of March and of October hour by hour around
\* the switch, and days far from it
TzInstants ==
    LET years == 2023..(2022 + TzYears)
    IN  {<<y, m, d, h, mi, 0>> : y \in years, m \in {3, 10}, d \in 24..31,
                                 h \in {0, 1, 2, 3, 12, 23}, mi \in {0, 30}}
        \cup {<<y, m, d, h, 0, 0>> : y \in years, m \in {1, 7, 12}, d \in {1, 31},
                                     h \in {0, 12, 23}}

TzInit ==
    /\ NoRun
    /\ fn_in \in TzInstants
    /\ fn_out = [zoneinfo |-> NoTime, fallback |-> NoTime]

\* the call with the zoneinfo module imported (lines 179-186)
TzZoneInfo ==
    /\ fn_out.zoneinfo = NoTime
    /\ fn_out' = [fn_out EXCEPT !.zoneinfo = utc_to_german_time(fn_in, TRUE)]
    /\ UNCHANGED <<main_vars, fn_in>>

\* the call where the import failed (lines 187-214)
TzFallback ==
    /\ fn_out.fallback = NoTime
    /\ fn_out' = [fn_out EXCEPT !.fallback = utc_to_german_time(fn_in, FALSE)]
    /\ UNCHANGED <<main_vars, fn_in>>

TzNext ==
    \/ TzZoneInfo
    \/ TzFallback

TzSpec == TzInit /\ [][TzNext]_vars

\* C9: whichever branch is taken, the civil time returned for a UTC instant is
\* the instant plus 2 hours when it lies in [last Sunday of March 02:00 UTC,
\* last Sunday of October 01:00 UTC) of its year and plus 1 hour otherwise, so
\* the two branches return the same civil time for every instant.
C9_BothPathsSameWindow ==
    LET y        == fn_in[1]
        from     == DaysFromCivil(y, 3, LastSunday(y, 3, 31)) * 24 + 2
        to       == DaysFromCivil(y, 10, LastSunday(y, 10, 31)) * 24 + 1
        summer   == from <= HoursOf(fn_in) /\ HoursOf(fn_in) < to
        expected == AddHours(fn_in, IF summer THEN 2 ELSE 1)
    IN  /\ fn_out.zoneinfo # NoTime => fn_out.zoneinfo = expected
        /\ fn_out.fallback # NoTime => fn_out.fallback = expected
        /\ fn_out.zoneinfo # NoTime /\ fn_out.fallback # NoTime
              => fn_out.zoneinfo = fn_out.fallback

\* coordinates in millionths of a degree, the decimals of the manifest
Magnitudes(max) ==
    {0, 1, 700000, 1520000, 2352200, 48856600, max}
        \cup {(k * 12345677) % max : k \in 1..GeoSamples}

Coordinates(max) == Magnitudes(max) \cup {0 - n : n \in Magnitudes(max)}

Abs(n) == IF n < 0 THEN 0 - n ELSE n

\* lines 261-269: the GPS IFD of a location
gps_ifd(location) ==
    [GPSLatitudeRef  |-> IF location.latitude >= 0 THEN "N" ELSE "S",
     GPSLatitude     |-> convert_to_degrees(FloatOfMillionths(Abs(location.latitude))),
     GPSLongitudeRef |-> IF location.longitude >= 0 THEN "E" ELSE "W",
     GPSLongitude    |-> convert_to_degrees(FloatOfMillionths(Abs(location.longitude)))]

NoGps == <<>>

GeoInit ==
    /\ NoRun
    /\ fn_in \in [latitude : Coordinates(90000000), longitude : Coordinates(180000000)]
    /\ fn_out = NoGps

GeoEncode ==
    /\ fn_out = NoGps
    /\ fn_out' = gps_ifd(fn_in)
    /\ UNCHANGED <<main_vars, fn_in>>

GeoSpec == GeoInit /\ [][GeoEncode]_vars

\* the value of a DMS triple in units of 1/360000 degree
Hundredths(dms) == dms[1] * 360000 + dms[2] * 6000 + dms[3]

\* the triple is a proper DMS encoding of the float value: parts in range, not
\* above the value and at most 1/360000 degree below it
WithinHundredth(dms, value) ==
    LET scaled == MulSmall(value, 360000)
    IN  /\ dms[1] >= 0
        /\ 0 <= dms[2] /\ dms[2] < 60
        /\ 0 <= dms[3] /\ dms[3] < 6000
        /\ ~Less(scaled, FloatOfInt(Hundredths(dms)))
        /\ ~Less(FloatOfInt(Hundredths(dms) + 1), scaled)

\* C10: for |lat| <= 90 and |lon| <= 180 the encoded degrees, minutes and
\* hundredths of seconds are in range, their value is at most the magnitude
\* passed in and at most 1/360000 degree below it, and the reference is N/E
\* for a non-negative coordinate and S/W for a negative one.
C10_DmsWithinHundredth ==
    fn_out # NoGps =>
        /\ WithinHundredth(fn_out.GPSLatitude, FloatOfMillionths(Abs(fn_in.latitude)))
        /\ WithinHundredth(fn_out.GPSLongitude, FloatOfMillionths(Abs(fn_in.longitude)))
        /\ fn_out.GPSLatitudeRef = (IF fn_in.latitude >= 0 THEN "N" ELSE "S")
        /\ fn_out.GPSLongitudeRef = (IF fn_in.longitude >= 0 THEN "E" ELSE "W")

(***************************************************************************)
(* The location tag of a BTS video: _format_iso6709_location and the       *)
(* ffmpeg arguments update_mp4_metadata builds from a location.  A string  *)
(* is the sequence of its characters.                                      *)
(***************************************************************************)
DigitChars == <<"0", "1", "2", "3", "4", "5", "6", "7", "8", "9">>

\* str(n) of an integer n >= 0
RECURSIVE DecimalDigits(_)
DecimalDigits(n) ==
    IF n < 10 THEN <<DigitChars[n + 1]>>
    ELSE Append(DecimalDigits(n \div 10), DigitChars[(n % 10) + 1])

\* n written with exactly width digits (n < 10^width)
RECURSIVE FixedDigits(_, _)
FixedDigits(n, width) ==
    IF width = 0 THEN <<>>
    ELSE Append(FixedDigits(n \div 10, width - 1), DigitChars[(n % 10) + 1])

\* the integer nearest to the float x, ties to even
NearestInt(x) ==
    LET g  == ShiftRightBits(x, 12 * FracLimbs - 1)
        q  == ToInt(g.q) \div 2
        up == ToInt(g.q) % 2 = 1 /\ (g.nz \/ q % 2 = 1)
    IN  IF up THEN q + 1 ELSE q

\* f"{x:.6f}" of a float x >= 0: the exact value of x rounded to six decimals
format_6f(x) ==
    LET millionths == NearestInt(MulSmall(MulSmall(x, 1000), 1000))
    IN  DecimalDigits(millionths \div 1000000) \o <<".">>
            \o FixedDigits(millionths % 1000000, 6)

\* _format_iso6709_location of two coordinates given in millionths of a degree
format_iso6709_location(latitude, longitude) ==
    LET lat_sign == IF latitude >= 0 THEN "+" ELSE "-"
        lon_sign == IF longitude >= 0 THEN "+" ELSE "-"
    IN  <<lat_sign>> \o format_6f(FloatOfMillionths(Abs(latitude)))
            \o <<lon_sign>> \o format_6f(FloatOfMillionths(Abs(longitude))) \o <<"/">>

\* entry.get('location'): None, or a dict with some of the two keys
NoLocation == [keys |-> "None"]

Locations ==
    {NoLocation}
        \cup [keys : SUBSET {"latitude", "longitude"},
              latitude : Coordinates(90000000), longitude : Coordinates(180000000)]

NoTag == <<>>

NoArgs == [built |-> FALSE, location |-> NoTag]

\* lines 343-345: the value of the location= metadata argument, NoTag when
\* the argument is not added
location_metadata(location) ==
    IF location # NoLocation /\ location.keys = {"latitude", "longitude"}
    THEN format_iso6709_location(location.latitude, location.longitude)
    ELSE NoTag

TagInit ==
    /\ NoRun
    /\ fn_in \in Locations
    /\ fn_out = NoArgs

TagBuild ==
    /\ ~fn_out.built
    /\ fn_out' = [built |-> TRUE, location |-> location_metadata(fn_in)]
    /\ UNCHANGED <<main_vars, fn_in>>

TagSpec == TagInit /\ [][TagBuild]_vars

\* C11: the location argument is present exactly when the location has both
\* keys, and then it is the sign ('+' for zero and above), two degree digits,
\* a point and six decimals of the latitude, then the sign, three degree
\* digits, a point and six decimals of the longitude, then a slash.
C11_FixedWidthLocationTag ==
    fn_out.built =>
        LET both == fn_in # NoLocation /\ fn_in.keys = {"latitude", "longitude"}
            part(n, width) ==
                <<IF n >= 0 THEN "+" ELSE "-">>
                    \o FixedDigits(Abs(n) \div 1000000, width) \o <<".">>
                    \o FixedDigits(Abs(n) % 1000000, 6)
        IN  /\ (fn_out.location # NoTag) <=> both
            /\ both => fn_out.location =
                          part(fn_in.latitude, 2) \o part(fn_in.longitude, 3) \o <<"/">>

(***************************************************************************)
(* Properties of the run: cleanup, pairing, combined files, counters.      *)
(***************************************************************************)
Backups(folder) == {n \in DOMAIN folder : n.bak}

\* the files of a folder that are not backups
Kept(folder) == [n \in DOMAIN folder \ Backups(folder) |-> folder[n]]

\* the run has ended, and not at the manifest
EndedAfterLoad ==
    \/ pc = "done"
    \/ pc = "crashed" /\ last.op # "load"

\* the cleanup comes after the entry loop and the combine pass and leaves the
\* files that are not backups as they were
CleanupInPlace ==
    InStep("cleanup") =>
        /\ idx > nrecords
        /\ create_combined_images => kpair > zip_length
        /\ Kept(output_folder') = Kept(output_folder)
        /\ Kept(output_folder_combined') = Kept(output_folder_combined)

\* nothing is written once the cleanup is done
QuietAfterCleanup ==
    pc \in {"summary", "done"} =>
        /\ output_folder' = output_folder
        /\ output_folder_combined' = output_folder_combined

\* C12: every run whose manifest loads ends with the backup cleanup as its
\* last step that changes a file: the cleanup comes after the entry loop and
\* after the combine pass, after it neither output directory holds a file
\* whose name ends with '~', the other files are as they were, and nothing is
\* written afterwards.
C12_CleanupIsLastStep ==
    /\ [](EndedAfterLoad => pc = "done")
    /\ [](pc \in {"summary", "done"} =>
             Backups(output_folder) = {} /\ Backups(output_folder_combined) = {})
    /\ [][CleanupInPlace]_vars
    /\ [][QuietAfterCleanup]_vars

\* C13: every combined image is made of the primary and the secondary image
\* of one manifest record, whatever happened to the roles in the entry loop.
C13_CombinedFromOneRecord ==
    /\ \A n \in DOMAIN output_folder_combined :
          output_folder_combined[n].rec = output_folder_combined[n].sec
    /\ \A k \in 1..Len(pairs) :
          output_folder[pairs[k][1]].rec = output_folder[pairs[k][2]].rec

\* the combined images of one format in out/__combined
CombinedOf(ext) ==
    {n \in DOMAIN output_folder_combined : n.ext = ext /\ ~n.bak}

\* a pair that is composited is written to a path that did not exist
CombinedWrittenFresh ==
    InStep("combine") /\ last'.outcome = "ok" =>
        /\ last'.path \notin DOMAIN output_folder_combined
        /\ convert_to_jpeg => [last'.path EXCEPT !.ext = "jpg"] \notin DOMAIN output_folder_combined

\* C14: no combined image overwrites another: each pair of the combine pass
\* is written to a path of out/__combined that did not exist, so a run that
\* starts with an empty combined directory ends with as many combined images
\* of each produced format as the combined counter says.
C14_CombinedNeverOverwritten ==
    /\ [][CombinedWrittenFresh]_vars
    /\ [](pc = "done" =>
             /\ Cardinality(CombinedOf("webp")) = combined_files_count
             /\ convert_to_jpeg => Cardinality(CombinedOf("jpg")) = combined_files_count)

\* the BTS videos this run has put at their final path
BtsOutputs ==
    {n \in DOMAIN output_folder :
        n.role = "bts" /\ n.ext = "mp4" /\ output_folder[n].rec > 0}

\* the four counters of the summary
Counters ==
    <<processed_files_count, converted_files_count, combined_files_count,
      skipped_files_count>>

\* no counter goes down, and a pass of the role loop adds one to at most one
\* of processed and skipped
CountersStep ==
    /\ \A c \in 1..4 : Counters'[c] >= Counters[c]
    /\ InStep("role") =>
          (processed_files_count' - processed_files_count)
              + (skipped_files_count' - skipped_files_count) <= 1

\* C15: at every record boundary of the entry loop processed is the number of
\* recorded primaries plus the number of recorded secondaries plus the number
\* of BTS videos materialized, processed + skipped is at most twice the
\* records visited plus the BTS videos handled, a pass of the role loop adds
\* one to at most one of processed and skipped, and no counter ever decreases.
C15_CountersMatchLists ==
    /\ [](pc = "entry" =>
             /\ processed_files_count =
                    Len(primary_images) + Len(secondary_images) + Cardinality(BtsOutputs)
             /\ processed_files_count + skipped_files_count
                    <= 2 * Len(attempted) + Cardinality(BtsOutputs))
    /\ [][CountersStep]_vars

\* two records done: both primaries recorded, one secondary skipped by a
\* failed conversion, a BTS video put in place by the fallback copy
C15_Witness ==
    /\ pc = "entry"
    /\ Len(attempted) = 2
    /\ Len(primary_images) = 2
    /\ Len(secondary_images) = 1
    /\ skipped_files_count = 1
    /\ processed_files_count = 4
    /\ \E n \in BtsOutputs : output_folder[n].src = "copy"

====
